---------------------------- MODULE Spec2Model ----------------------------
(***************************************************************************)
(* A model of ethers-signers: the Wallet signer (wallet/mod.rs), the       *)
(* EIP-155 transform to_eip155_v (lib.rs) and the Tron address encoders.   *)
(*                                                                         *)
(* u64 is modelled at the reduced width U64Bits; every width-dependent     *)
(* fact is stated relative to U64Bits, so that it scales with the width.   *)
(***************************************************************************)
EXTENDS Integers, Sequences, FiniteSets, TLC

(* ------------------------------ bounds -------------------------------- *)
\* width of the model's u64, in bits (64 in the program)
U64Bits == 10
\* the wallet is exercised with the chain ids 0..MaxSmallChain and the edge ones
MaxSmallChain == 1
\* messages are byte strings of at most MaxMsgLen bytes
MaxMsgLen == 1
\* the length of the model's field elements r and s, in bytes (32 in the program)
FieldBytesLen == 2

(* -------------------------- machine integers --------------------------- *)
RECURSIVE Pow2(_)
Pow2(n) == IF n = 0 THEN 1 ELSE 2 * Pow2(n - 1)

U64Modulus == Pow2(U64Bits)
U64Max == U64Modulus - 1
U64 == 0 .. U64Max

\* width of u8 (lib.rs: `T: Into<u8>`, mod.rs: `sig.v as u8`)
U8Bits == 8
U8Modulus == Pow2(U8Bits)

\* the outcome of an arithmetic operation that panicked
Panic == 0 - 1
IsPanic(x) == x = Panic

\* Option<T>: None is the empty sequence, Some(x) the sequence of x alone
None == <<>>
Some(x) == <<x>>

VARIABLES
    overflow_checks,  \* the build: TRUE panics on overflow (debug), FALSE wraps (release)
    wallets,          \* the wallets alive: <<the one built>> and then <<it, its clone>>
    built,            \* ghost: the capability and address new_with_signer was given
    expect_chain,     \* ghost: slot -> the chain id most recently given to the slot
    kept,             \* the first sign_message call and its Signature, kept by the caller
    last              \* the last call: its operation, arguments and outcome

vars == <<overflow_checks, wallets, built, expect_chain, kept, last>>

\* u64 `a + b`: panics in a build with overflow checks, wraps otherwise
U64Add(a, b) ==
    IF IsPanic(a) \/ IsPanic(b) THEN Panic
    ELSE IF a + b > U64Max /\ overflow_checks THEN Panic
    ELSE (a + b) % U64Modulus

\* u64 `a * b`
U64Mul(a, b) ==
    IF IsPanic(a) \/ IsPanic(b) THEN Panic
    ELSE IF a * b > U64Max /\ overflow_checks THEN Panic
    ELSE (a * b) % U64Modulus

\* u8 `a - b`
U8Sub(a, b) ==
    IF IsPanic(a) \/ IsPanic(b) THEN Panic
    ELSE IF a < b /\ overflow_checks THEN Panic
    ELSE (a - b + U8Modulus) % U8Modulus

\* `x as u8`: truncation
AsU8(x) == x % U8Modulus

(* ------------------------------ lib.rs --------------------------------- *)
\* a faulty variant: the transform applied to a v that still carries the 27
to_eip155_v_double_encoded(recovery_id, chain_id) ==
    U64Add(U64Add(U64Add(recovery_id, 27), 35), U64Mul(chain_id, 2))

\* (recovery_id.into() as u64) + 35 + chain_id * 2
to_eip155_v(recovery_id, chain_id) ==
    U64Add(U64Add(recovery_id, 35), U64Mul(chain_id, 2))


(* ----------------------- the collaborators ----------------------------- *)
\* An H256 is the symbolic value of the hash that made it: hashes are taken
\* to be collision free, so two digests are equal iff kind and data are.
H256(kind, data) == [kind |-> kind, data |-> data]

\* ethers_core::utils::keccak256
keccak256(bytes) == H256("keccak256", bytes)

\* the decimal digits of n, as ASCII bytes
RECURSIVE DecimalString(_)
DecimalString(n) ==
    IF n < 10 THEN <<48 + n>> ELSE Append(DecimalString(n \div 10), 48 + (n % 10))

\* "\x19Ethereum Signed Message:\n"
EthMessagePrefix ==
    <<25, 69, 116, 104, 101, 114, 101, 117, 109, 32, 83, 105, 103, 110, 101, 100,
      32, 77, 101, 115, 115, 97, 103, 101, 58, 10>>

\* ethers_core::utils::hash_message: keccak256(prefix || len || message)
hash_message(message) ==
    keccak256(EthMessagePrefix \o DecimalString(Len(message)) \o message)

\* TypedTransaction: { body, chain_id: Option<U64> }
TypedTransaction(body, chain_id) == [body |-> body, chain_id |-> chain_id]
tx_chain_id(tx) == tx.chain_id
tx_set_chain_id(tx, chain_id) == [tx EXCEPT !.chain_id = Some(chain_id)]
\* TypedTransaction::sighash: the digest of the serialization, chain id included
tx_sighash(tx) == H256("sighash", <<tx.body>> \o tx.chain_id)

\* Sha256Proxy::from(hash): a digest that finalizes to the hash it was given
Sha256Proxy_from(hash) == [fixed |-> hash]
Sha256Proxy_finalize(proxy) == proxy.fixed

\* a number the capability's signature is a function of
DigestCode(h) ==
    Len(h.data) + (IF h.data = <<>> THEN 0 ELSE 3 * h.data[Len(h.data)])
        + (CASE h.kind = "keccak256" -> 1
             [] h.kind = "sighash" -> 2
             [] h.kind = "eip712" -> 3
             [] OTHER -> 5)

\* DigestSigner::sign_digest of the capability `signer`: a deterministic
\* RecoverableSignature { r, s: FieldBytes, recovery_id: 0 or 1 }
sign_digest(signer, proxy) ==
    LET c == DigestCode(Sha256Proxy_finalize(proxy))
    IN  [r_bytes |-> [i \in 1 .. FieldBytesLen |-> (c * (6 + i) + signer * i) % 256],
         s_bytes |-> [i \in 1 .. FieldBytesLen |-> (c * (12 - i) + signer + 7 * i) % 256],
         recovery_id |-> (c + signer) % 2]

\* U256::from_big_endian
RECURSIVE from_big_endian(_)
from_big_endian(bytes) ==
    IF bytes = <<>> THEN 0
    ELSE 256 * from_big_endian(SubSeq(bytes, 1, Len(bytes) - 1)) + bytes[Len(bytes)]

(* --------------------------- wallet/mod.rs ----------------------------- *)
\* struct Wallet { signer, address, chain_id }
Wallet(signer, address, chain_id) ==
    [signer |-> signer, address |-> address, chain_id |-> chain_id]

new_with_signer(signer, address, chain_id) == Wallet(signer, address, chain_id)

Signature(r, s, v) == [r |-> r, s |-> s, v |-> v]

\* What a call did: its return value, the digests it handed to sign_digest, and
\* for a transaction the copy whose sighash was signed and the chain id given
\* to to_eip155_v.
Outcome(tag, sig, err, calls, signed_tx, v_chain_id) ==
    [tag |-> tag, sig |-> sig, err |-> err, calls |-> calls,
     signed_tx |-> signed_tx, v_chain_id |-> v_chain_id]

Returned(sig, calls) == Outcome("Sig", Some(sig), None, calls, None, None)

\* a faulty variant: v made to depend on the wallet's chain id
sign_hash_eip155(self, hash) ==
    LET proxy == Sha256Proxy_from(hash)
        recoverable_sig == sign_digest(self.signer, proxy)
    IN  Returned(Signature(from_big_endian(recoverable_sig.r_bytes),
                           from_big_endian(recoverable_sig.s_bytes),
                           to_eip155_v(recoverable_sig.recovery_id, self.chain_id)),
                 <<proxy>>)

\* Wallet::sign_hash
sign_hash(self, hash) ==
    LET proxy == Sha256Proxy_from(hash)
        recoverable_sig == sign_digest(self.signer, proxy)
        v == recoverable_sig.recovery_id + 27
        r == from_big_endian(recoverable_sig.r_bytes)
        s == from_big_endian(recoverable_sig.s_bytes)
    IN  Returned(Signature(r, s, v), <<proxy>>)

Ok(out) == [out EXCEPT !.tag = IF out.tag = "Sig" THEN "Ok" ELSE out.tag]

\* a faulty variant: the message hashed without prefix and length
sign_message_raw(self, message) == Ok(sign_hash(self, keccak256(message)))

\* Signer::sign_message
sign_message(self, message) ==
    LET message_hash == hash_message(message)
    IN  Ok(sign_hash(self, message_hash))

\* Wallet::sign_transaction_sync
sign_transaction_sync(self, tx0) ==
    LET chain_id == IF tx_chain_id(tx0) # None THEN tx_chain_id(tx0)[1] ELSE self.chain_id
        tx == tx_set_chain_id(tx0, chain_id)
        sighash == tx_sighash(tx)
        signed == sign_hash(self, sighash)
        sig == signed.sig[1]
        v == to_eip155_v(U8Sub(AsU8(sig.v), 27), chain_id)
    IN  IF IsPanic(v)
        THEN Outcome("Panic", None, None, signed.calls, Some(tx), Some(chain_id))
        ELSE Outcome("Sig", Some([sig EXCEPT !.v = v]), None, signed.calls,
                     Some(tx), Some(chain_id))

\* Signer::sign_transaction
sign_transaction(self, tx) ==
    LET tx_with_chain ==
            IF tx_chain_id(tx) = None THEN tx_set_chain_id(tx, self.chain_id) ELSE tx
    IN  Ok(sign_transaction_sync(self, tx_with_chain))

\* a faulty variant: a failed encoding replaced by a default digest
sign_typed_data_default(self, payload) ==
    IF payload.encoded = None
    THEN Ok(sign_hash(self, H256("eip712", <<0>>)))
    ELSE Ok(sign_hash(self, H256("eip712", payload.encoded)))

\* Signer::sign_typed_data
sign_typed_data(self, payload) ==
    IF payload.encoded = None
    THEN Outcome("Err", None, Some(<<"Eip712Error", payload.error[1]>>), <<>>, None, None)
    ELSE Ok(sign_hash(self, H256("eip712", payload.encoded)))

\* Signer::address, Signer::chain_id, Wallet::signer
address(self) == self.address
chain_id(self) == self.chain_id
signer(self) == self.signer

\* a faulty variant: the wallet rebuilt with a zeroed address
with_chain_id_rebuilds(self, id) == Wallet(self.signer, [i \in 1 .. Len(self.address) |-> 0], id)

\* Signer::with_chain_id
with_chain_id(self, id) == [self EXCEPT !.chain_id = id]

\* #[derive(Clone)]
clone(self) == Wallet(self.signer, self.address, self.chain_id)

(* ------------------------- sha2::Sha256 -------------------------------- *)
\* A 32-bit word is the pair <<high 16 bits, low 16 bits>>.
Half == Pow2(16)

\* bitwise exclusive or / and of two n-bit numbers
RECURSIVE XorN(_, _, _)
XorN(a, b, n) ==
    IF n = 0 THEN 0 ELSE ((a + b) % 2) + 2 * XorN(a \div 2, b \div 2, n - 1)

RECURSIVE AndN(_, _, _)
AndN(a, b, n) ==
    IF n = 0 THEN 0 ELSE ((a % 2) * (b % 2)) + 2 * AndN(a \div 2, b \div 2, n - 1)

Xor(x, y) == <<XorN(x[1], y[1], 16), XorN(x[2], y[2], 16)>>
And(x, y) == <<AndN(x[1], y[1], 16), AndN(x[2], y[2], 16)>>
Not(x) == <<Half - 1 - x[1], Half - 1 - x[2]>>

\* rotate right by n < 16
RotRSmall(x, n) ==
    IF n = 0 THEN x
    ELSE <<(x[1] \div Pow2(n)) + (x[2] % Pow2(n)) * Pow2(16 - n),
           (x[2] \div Pow2(n)) + (x[1] % Pow2(n)) * Pow2(16 - n)>>

RotR(x, n) == IF n < 16 THEN RotRSmall(x, n) ELSE RotRSmall(<<x[2], x[1]>>, n - 16)

\* shift right by n < 16
ShR(x, n) ==
    <<x[1] \div Pow2(n), (x[2] \div Pow2(n)) + (x[1] % Pow2(n)) * Pow2(16 - n)>>

\* wrapping_add
WAdd(x, y) ==
    <<(x[1] + y[1] + ((x[2] + y[2]) \div Half)) % Half, (x[2] + y[2]) % Half>>

Ch(x, y, z) == Xor(And(x, y), And(Not(x), z))
Maj(x, y, z) == Xor(Xor(And(x, y), And(x, z)), And(y, z))
BigSigma0(x) == Xor(Xor(RotR(x, 2), RotR(x, 13)), RotR(x, 22))
BigSigma1(x) == Xor(Xor(RotR(x, 6), RotR(x, 11)), RotR(x, 25))
SmallSigma0(x) == Xor(Xor(RotR(x, 7), RotR(x, 18)), ShR(x, 3))
SmallSigma1(x) == Xor(Xor(RotR(x, 17), RotR(x, 19)), ShR(x, 10))

Sha256K ==
    <<
       <<17034, 12184>>, <<28983, 17553>>, <<46528, 64463>>, <<59829, 56229>>,
       <<14678, 49755>>, <<23025, 4593>>, <<37439, 33444>>, <<43804, 24277>>,
       <<55303, 43672>>, <<4739, 23297>>, <<9265, 34238>>, <<21772, 32195>>,
       <<29374, 23924>>, <<32990, 45566>>, <<39900, 1703>>, <<49563, 61812>>,
       <<58523, 27073>>, <<61374, 18310>>, <<4033, 40390>>, <<9228, 41420>>,
       <<11753, 11375>>, <<19060, 33962>>, <<23728, 43484>>, <<30457, 35034>>,
       <<38974, 20818>>, <<43057, 50797>>, <<45059, 10184>>, <<48985, 32711>>,
       <<50912, 3059>>, <<54695, 37191>>, <<1738, 25425>>, <<5161, 10599>>,
       <<10167, 2693>>, <<11803, 8504>>, <<19756, 28156>>, <<21304, 3347>>,
       <<25866, 29524>>, <<30314, 2747>>, <<33218, 51502>>, <<37490, 11397>>,
       <<41663, 59553>>, <<43034, 26187>>, <<49739, 35696>>, <<51052, 20899>>,
       <<53650, 59417>>, <<54937, 1572>>, <<62478, 13701>>, <<4202, 41072>>,
       <<6564, 49430>>, <<7735, 27656>>, <<10056, 30540>>, <<13488, 48309>>,
       <<14620, 3251>>, <<20184, 43594>>, <<23452, 51791>>, <<26670, 28659>>,
       <<29839, 33518>>, <<30885, 25455>>, <<33992, 30740>>, <<36039, 520>>,
       <<37054, 65530>>, <<42064, 27883>>, <<48889, 41975>>, <<50801, 30962>>
    >>

Sha256H0 ==
    <<
       <<27145, 58983>>, <<47975, 44677>>, <<15470, 62322>>, <<42319, 62778>>,
       <<20750, 21119>>, <<39685, 26764>>, <<8067, 55723>>, <<23520, 52505>>
    >>

Zeros(n) == [i \in 1 .. n |-> 0]

\* the padded message: the bytes, 0x80, zeros, the 64-bit length in bits
Sha256Pad(bytes) ==
    LET n == Len(bytes)
        z == (64 - ((n + 9) % 64)) % 64
    IN  bytes \o <<128>> \o Zeros(z + 4)
              \o <<(n * 8) \div Pow2(24), ((n * 8) \div Pow2(16)) % 256,
                   ((n * 8) \div 256) % 256, (n * 8) % 256>>

\* word t (from 0) of a 64-byte block, big-endian
BlockWord(block, t) ==
    <<block[4 * t + 1] * 256 + block[4 * t + 2],
      block[4 * t + 3] * 256 + block[4 * t + 4]>>

\* the 16 big-endian words of a 64-byte block
BlockWords(block) ==
    <<BlockWord(block, 0), BlockWord(block, 1), BlockWord(block, 2),
      BlockWord(block, 3), BlockWord(block, 4), BlockWord(block, 5),
      BlockWord(block, 6), BlockWord(block, 7), BlockWord(block, 8),
      BlockWord(block, 9), BlockWord(block, 10), BlockWord(block, 11),
      BlockWord(block, 12), BlockWord(block, 13), BlockWord(block, 14),
      BlockWord(block, 15)>>

\* the message schedule: w, the words so far, extended to 64 words
RECURSIVE Schedule(_)
Schedule(w) ==
    LET t == Len(w)
    IN  IF t >= 64 THEN w
        ELSE Schedule(Append(w, WAdd(WAdd(SmallSigma1(w[t - 1]), w[t - 6]),
                                     WAdd(SmallSigma0(w[t - 14]), w[t - 15]))))

\* round t (from 0) on the working variables s = <<a, b, c, d, e, f, g, h>>
Round(s, w, t) ==
    LET t1 == WAdd(WAdd(WAdd(s[8], BigSigma1(s[5])), Ch(s[5], s[6], s[7])),
                   WAdd(Sha256K[t + 1], w[t + 1]))
        t2 == WAdd(BigSigma0(s[1]), Maj(s[1], s[2], s[3]))
    IN  <<WAdd(t1, t2), s[1], s[2], s[3], WAdd(s[4], t1), s[5], s[6], s[7]>>

\* the 64 rounds: the loop's state is the working variables s and the round t
RECURSIVE Rounds(_, _)
Rounds(st, w) ==
    IF st.t >= 64 THEN st.s
    ELSE Rounds([s |-> Round(st.s, w, st.t), t |-> st.t + 1], w)

Compress(h, block) ==
    LET s == Rounds([s |-> h, t |-> 0], Schedule(BlockWords(block)))
    IN  <<WAdd(h[1], s[1]), WAdd(h[2], s[2]), WAdd(h[3], s[3]), WAdd(h[4], s[4]),
          WAdd(h[5], s[5]), WAdd(h[6], s[6]), WAdd(h[7], s[7]), WAdd(h[8], s[8])>>

\* the blocks of the padded message, from block i (from 0) on
RECURSIVE Blocks(_, _)
Blocks(st, padded) ==
    IF 64 * st.i >= Len(padded) THEN st.h
    ELSE Blocks([h |-> Compress(st.h, SubSeq(padded, 64 * st.i + 1, 64 * st.i + 64)),
                 i |-> st.i + 1], padded)

\* byte i (from 1) of the words ws, big-endian
WordByte(ws, i) ==
    LET half == ws[((i - 1) \div 4) + 1][(((i - 1) \div 2) % 2) + 1]
    IN  IF i % 2 = 1 THEN half \div 256 ELSE half % 256

\* Sha256::new(), update(bytes), finalize(): the 32 digest bytes
Sha256(bytes) ==
    LET h == Blocks([h |-> Sha256H0, i |-> 0], Sha256Pad(bytes))
    IN  [i \in 1 .. 32 |-> WordByte(h, i)]

(* ------------------------------ hex ------------------------------------ *)
\* Strings are sequences of one-character strings.
HexDigits ==
    <<"0", "1", "2", "3", "4", "5", "6", "7", "8", "9", "a", "b", "c", "d", "e", "f">>

\* hex::encode: two lower-case digits a byte, the high nibble first
hex_encode(bytes) ==
    [i \in 1 .. 2 * Len(bytes) |->
        IF i % 2 = 1 THEN HexDigits[(bytes[(i + 1) \div 2] \div 16) + 1]
        ELSE HexDigits[(bytes[(i + 1) \div 2] % 16) + 1]]

\* char::to_uppercase on a hex digit
UpperHexDigit(c) ==
    CASE c = "a" -> "A" [] c = "b" -> "B" [] c = "c" -> "C" [] c = "d" -> "D"
      [] c = "e" -> "E" [] c = "f" -> "F" [] OTHER -> c

to_uppercase(str) == [i \in 1 .. Len(str) |-> UpperHexDigit(str[i])]

(* ----------------------------- base58 ---------------------------------- *)
Base58Alphabet ==
    <<"1", "2", "3", "4", "5", "6", "7", "8", "9",
      "A", "B", "C", "D", "E", "F", "G", "H", "J", "K", "L", "M", "N", "P", "Q",
      "R", "S", "T", "U", "V", "W", "X", "Y", "Z",
      "a", "b", "c", "d", "e", "f", "g", "h", "i", "j", "k", "m", "n", "o", "p",
      "q", "r", "s", "t", "u", "v", "w", "x", "y", "z">>

\* the number of leading zero bytes
RECURSIVE LeadingZeros(_)
LeadingZeros(bytes) ==
    IF bytes = <<>> \/ bytes[1] # 0 THEN 0 ELSE 1 + LeadingZeros(Tail(bytes))

\* long division of a big-endian number by 58: the loop's state is the next
\* byte i, the quotient's bytes q so far and the remainder rem
RECURSIVE DivBy58(_, _)
DivBy58(st, bytes) ==
    IF st.i > Len(bytes) THEN st
    ELSE LET cur == st.rem * 256 + bytes[st.i]
         IN  DivBy58([i |-> st.i + 1, q |-> Append(st.q, cur \div 58),
                      rem |-> cur % 58], bytes)

\* the base58 digits of a big-endian number, most significant first
RECURSIVE Base58Digits(_)
Base58Digits(st) ==
    IF st.num = <<>> THEN st.digits
    ELSE LET d == DivBy58([i |-> 1, q |-> <<>>, rem |-> 0], st.num)
         IN  Base58Digits([num |-> SubSeq(d.q, LeadingZeros(d.q) + 1, Len(d.q)),
                           digits |-> <<d.rem>> \o st.digits])

\* base58::ToBase58::to_base58: a "1" for every leading zero byte, then the digits
to_base58(bytes) ==
    LET zcount == LeadingZeros(bytes)
        digits == Base58Digits([num |-> SubSeq(bytes, zcount + 1, Len(bytes)),
                                digits |-> <<>>])
    IN  [i \in 1 .. zcount |-> "1"]
            \o [i \in 1 .. Len(digits) |-> Base58Alphabet[digits[i] + 1]]

(* ----------------------- impl Tron for Wallet -------------------------- *)
\* the byte every Tron address starts with (0x41)
TronPrefix == 65

\* let mut raw = [0x41; 21]; raw[1..21].copy_from_slice(self.address.as_ref())
TronRaw(self) == [i \in 1 .. 21 |-> IF i = 1 THEN TronPrefix ELSE self.address[i - 1]]

\* Tron::to_tron_hex_address
to_tron_hex_address(self) == hex_encode(TronRaw(self))

\* a faulty variant: the checksum taken from a single SHA-256
to_tron_b58_address_single_hash(self) ==
    LET raw == TronRaw(self)
        digest1 == Sha256(raw)
    IN  to_base58(raw \o SubSeq(digest1, 1, 4))

\* Tron::to_tron_b58_address
to_tron_b58_address(self) ==
    LET raw == TronRaw(self)
        digest1 == Sha256(raw)
        digest == Sha256(digest1)
        res == raw \o SubSeq(digest, 1, 4)
    IN  to_base58(res)


(* ------------------------- the inputs ---------------------------------- *)
\* the signing capabilities (private keys)
Keys == {1, 2}

\* the address of the private key
\* 427139B43028A492E2705BCC9C64172392B8DB59F3BA1AEDAE41C88924960091
TestVectorAddress ==
    <<42, 43, 159, 118, 65, 208, 117, 12, 30, 130, 45, 14, 73, 239, 118, 92, 129,
      6, 82, 75>>

OtherAddress == [i \in 1 .. 20 |-> (37 * i) % 256]

Addresses == {TestVectorAddress, OtherAddress}

\* the wallets built: a capability and its address
Accounts == {<<1, TestVectorAddress>>, <<2, OtherAddress>>}

\* the largest chain id whose EIP-155 v fits a u64 for both recovery ids
LargestSafeChain == (U64Max - 36) \div 2

\* small chain ids, and the ones around the points where v leaves the u64 range
ChainIds ==
    (0 .. MaxSmallChain)
        \cup {LargestSafeChain, LargestSafeChain + 1, U64Max}

MsgBytes == {97}
Messages == UNION {[1 .. n -> MsgBytes] : n \in 0 .. MaxMsgLen}

TxBodies == {1}
Transactions ==
    {TypedTransaction(b, c) : b \in TxBodies, c \in {None} \cup {Some(x) : x \in ChainIds}}

\* EIP-712 payloads: what encode_eip712 returns, Ok(encoded) or Err(error)
Payloads ==
    {[encoded |-> Some(n), error |-> None] : n \in {1, 2}}
        \cup {[encoded |-> None, error |-> Some("missing domain")]}

\* the hashes sign_hash is given: the plain hash and the prefixed hash of a message
Hashes == {keccak256(m) : m \in Messages} \cup {hash_message(m) : m \in Messages}

\* the encoders are pure functions of the address: they are tabulated once
TronHexOf == [a \in Addresses |-> to_tron_hex_address(Wallet(1, a, 0))]
TronB58Of == [a \in Addresses |-> to_tron_b58_address(Wallet(1, a, 0))]

(* ------------------------- the state machine --------------------------- *)
NoOutcome == Outcome("None", None, None, <<>>, None, None)

Call(op, slot, arg, out, val) ==
    [op |-> op, slot |-> slot, arg |-> arg, out |-> out, val |-> val, held |-> kept]

Slots == 1 .. Len(wallets)

Init ==
    /\ overflow_checks \in BOOLEAN
    /\ \E acct \in Accounts, c \in ChainIds :
          /\ wallets = <<new_with_signer(acct[1], acct[2], c)>>
          /\ built = Some(acct)
          /\ expect_chain = <<c>>
          /\ last = [op |-> "new_with_signer", slot |-> 1, arg |-> <<acct, c>>,
                     out |-> NoOutcome, val |-> None, held |-> None]
    /\ kept = None

\* let wallet_clone = wallet.clone()
Clone ==
    /\ Len(wallets) = 1
    /\ wallets' = Append(wallets, clone(wallets[1]))
    /\ expect_chain' = Append(expect_chain, expect_chain[1])
    /\ last' = Call("clone", 1, None, NoOutcome, None)
    /\ UNCHANGED <<overflow_checks, built, kept>>

\* let wallet = wallet.with_chain_id(c)
WithChainId(i, c) ==
    /\ wallets' = [wallets EXCEPT ![i] = with_chain_id(wallets[i], c)]
    /\ expect_chain' = [expect_chain EXCEPT ![i] = c]
    /\ last' = Call("with_chain_id", i, c, NoOutcome, None)
    /\ UNCHANGED <<overflow_checks, built, kept>>

SignMessage(i, m) ==
    LET out == sign_message(wallets[i], m)
    IN  /\ last' = Call("sign_message", i, m, out, None)
        /\ kept' = IF kept = None /\ out.sig # None
                   THEN Some([message |-> m, sig |-> out.sig[1]])
                   ELSE kept
        /\ UNCHANGED <<overflow_checks, wallets, built, expect_chain>>

SignTransaction(i, tx) ==
    /\ last' = Call("sign_transaction", i, tx, sign_transaction(wallets[i], tx), None)
    /\ UNCHANGED <<overflow_checks, wallets, built, expect_chain, kept>>

SignTransactionSync(i, tx) ==
    /\ last' = Call("sign_transaction_sync", i, tx,
                    sign_transaction_sync(wallets[i], tx), None)
    /\ UNCHANGED <<overflow_checks, wallets, built, expect_chain, kept>>

SignTypedData(i, p) ==
    /\ last' = Call("sign_typed_data", i, p, sign_typed_data(wallets[i], p), None)
    /\ UNCHANGED <<overflow_checks, wallets, built, expect_chain, kept>>

SignHash(i, h) ==
    /\ last' = Call("sign_hash", i, h, sign_hash(wallets[i], h), None)
    /\ UNCHANGED <<overflow_checks, wallets, built, expect_chain, kept>>

GetAddress(i) ==
    /\ last' = Call("address", i, None, NoOutcome, Some(address(wallets[i])))
    /\ UNCHANGED <<overflow_checks, wallets, built, expect_chain, kept>>

GetChainId(i) ==
    /\ last' = Call("chain_id", i, None, NoOutcome, Some(chain_id(wallets[i])))
    /\ UNCHANGED <<overflow_checks, wallets, built, expect_chain, kept>>

GetSigner(i) ==
    /\ last' = Call("signer", i, None, NoOutcome, Some(signer(wallets[i])))
    /\ UNCHANGED <<overflow_checks, wallets, built, expect_chain, kept>>

ToTronHexAddress(i) ==
    /\ last' = Call("to_tron_hex_address", i, None, NoOutcome,
                    Some(TronHexOf[wallets[i].address]))
    /\ UNCHANGED <<overflow_checks, wallets, built, expect_chain, kept>>

ToTronB58Address(i) ==
    /\ last' = Call("to_tron_b58_address", i, None, NoOutcome,
                    Some(TronB58Of[wallets[i].address]))
    /\ UNCHANGED <<overflow_checks, wallets, built, expect_chain, kept>>

Next ==
    \/ Clone
    \/ \E i \in Slots, c \in ChainIds : WithChainId(i, c)
    \/ \E i \in Slots, m \in Messages : SignMessage(i, m)
    \/ \E i \in Slots, tx \in Transactions : SignTransaction(i, tx)
    \/ \E i \in Slots, tx \in Transactions : SignTransactionSync(i, tx)
    \/ \E i \in Slots, p \in Payloads : SignTypedData(i, p)
    \/ \E i \in Slots, h \in Hashes : SignHash(i, h)
    \/ \E i \in Slots : GetAddress(i)
    \/ \E i \in Slots : GetChainId(i)
    \/ \E i \in Slots : GetSigner(i)
    \/ \E i \in Slots : ToTronHexAddress(i)
    \/ \E i \in Slots : ToTronB58Address(i)

Spec == Init /\ [][Next]_vars

\* to_eip155_v called on its own, with arguments from the whole u64 range
InitV ==
    /\ overflow_checks \in BOOLEAN
    /\ wallets = <<>>
    /\ built = None
    /\ expect_chain = <<>>
    /\ kept = None
    /\ \E recovery_id \in {0, 1}, id \in U64 :
          last = [op |-> "call to_eip155_v", slot |-> 0, arg |-> <<recovery_id, id>>,
                  out |-> NoOutcome, val |-> None, held |-> None]

CallToEip155V ==
    /\ last.op = "call to_eip155_v"
    /\ last' = Call("to_eip155_v", 0, last.arg, NoOutcome,
                    Some(to_eip155_v(last.arg[1], last.arg[2])))
    /\ UNCHANGED <<overflow_checks, wallets, built, expect_chain, kept>>

NextV == CallToEip155V

SpecV == InitV /\ [][NextV]_vars


(* ======================================================================== *)
(* The claims.                                                              *)
(* ======================================================================== *)
IsTxCall == last.op \in {"sign_transaction", "sign_transaction_sync"}
IsHashCall == last.op \in {"sign_hash", "sign_message", "sign_typed_data"}

\* the wallet the last call was made on (a signing call leaves it as it was)
Self == wallets[last.slot]

\* what the capability answered in the last call
Raw == sign_digest(Self.signer, last.out.calls[1])

\* the chain id a transaction is to be signed under: its own when it declares
\* one, the wallet's otherwise
GoverningChain(self, tx) == IF tx.chain_id # None THEN tx.chain_id[1] ELSE self.chain_id

\* r and s are the capability's field elements read as big-endian numbers
RECURSIVE BigEndianValue(_, _)
BigEndianValue(bytes, i) ==
    IF i > Len(bytes) THEN 0
    ELSE bytes[i] * Pow2(8 * (Len(bytes) - i)) + BigEndianValue(bytes, i + 1)

RawRS(sig) ==
    /\ sig.r = BigEndianValue(Raw.r_bytes, 1)
    /\ sig.s = BigEndianValue(Raw.s_bytes, 1)

\* C1: sign_transaction and sign_transaction_sync return v = rec + 35 + 2*C for
\* every wallet chain id W and transaction T, where C is T's declared chain id
\* when it declares one and W otherwise.
C1_TxVFollowsGoverningChain ==
    IsTxCall =>
        /\ last.out.sig # None
        /\ last.out.sig[1].v = Raw.recovery_id + 35 + 2 * GoverningChain(Self, last.arg)

\* C1, for the chain ids whose v fits a u64: there the claim holds.
C1_HoldsUpToLargestSafeChain ==
    (IsTxCall /\ GoverningChain(Self, last.arg) <= LargestSafeChain) =>
        /\ last.out.sig # None
        /\ last.out.sig[1].v = Raw.recovery_id + 35 + 2 * GoverningChain(Self, last.arg)

\* C2: in every execution of sign_transaction / sign_transaction_sync that
\* returns, the chain id written into the transaction copy whose sighash is
\* handed to the capability is the chain id encoded into the returned v: the
\* digest is never computed under one chain id and v under another.
C2_DigestAndVShareChainId ==
    (IsTxCall /\ last.out.sig # None) =>
        /\ last.out.calls = <<Sha256Proxy_from(tx_sighash(last.out.signed_tx[1]))>>
        /\ (last.out.sig[1].v - 35) \div 2 = last.out.signed_tx[1].chain_id[1]

\* C2, the part that holds: the transaction copy is given the very chain id
\* that is passed to to_eip155_v, and for the chain ids whose v fits a u64
\* that is the chain id v encodes.
C2_HoldsUpToLargestSafeChain ==
    IsTxCall =>
        /\ last.out.signed_tx # None
        /\ last.out.signed_tx[1].chain_id = last.out.v_chain_id
        /\ last.out.calls = <<Sha256Proxy_from(tx_sighash(last.out.signed_tx[1]))>>
        /\ (last.out.sig # None /\ last.out.v_chain_id[1] <= LargestSafeChain) =>
               (last.out.sig[1].v - 35) \div 2 = last.out.signed_tx[1].chain_id[1]

\* the scaled counterpart of 2^32: half the width of a u64
ClaimedIdBits == U64Bits \div 2

\* C3: for recovery_id in {0,1} and network_id below 2^32 (here: below
\* 2^ClaimedIdBits), to_eip155_v(recovery_id, network_id) is
\* recovery_id + 35 + network_id*2, and subtracting 35, then mod 2 and div 2,
\* recovers the pair.
C3_VRoundTrip ==
    (last.op = "to_eip155_v" /\ last.arg[2] < Pow2(ClaimedIdBits)) =>
        LET v == last.val[1]
        IN  /\ v = last.arg[1] + 35 + last.arg[2] * 2
            /\ (v - 35) % 2 = last.arg[1]
            /\ (v - 35) \div 2 = last.arg[2]

C3_Witness ==
    /\ last.op = "to_eip155_v"
    /\ last.arg = <<1, Pow2(ClaimedIdBits) - 1>>
    /\ last.val = Some(36 + 2 * (Pow2(ClaimedIdBits) - 1))

\* C4: every Signature returned satisfies the v invariant: sign_hash,
\* sign_message and sign_typed_data return v = recovery_id + 27 whatever the
\* wallet's chain id, sign_transaction returns v = recovery_id + 35 + chain_id*2
\* (the transform applied once), and r and s are the capability's r and s.
C4_VInvariant ==
    /\ (IsHashCall /\ last.out.sig # None) =>
          /\ last.out.sig[1].v = Raw.recovery_id + 27
          /\ RawRS(last.out.sig[1])
    /\ (IsTxCall /\ last.out.sig # None) =>
          /\ last.out.sig[1].v = Raw.recovery_id + 35 + 2 * GoverningChain(Self, last.arg)
          /\ RawRS(last.out.sig[1])

\* C4, for the chain ids whose v fits a u64: there the claim holds.
C4_HoldsUpToLargestSafeChain ==
    /\ (IsHashCall /\ last.out.sig # None) =>
          /\ last.out.sig[1].v = Raw.recovery_id + 27
          /\ RawRS(last.out.sig[1])
    /\ (IsTxCall /\ last.out.sig # None
            /\ GoverningChain(Self, last.arg) <= LargestSafeChain) =>
          /\ last.out.sig[1].v = Raw.recovery_id + 35 + 2 * GoverningChain(Self, last.arg)
          /\ RawRS(last.out.sig[1])

\* C5: when the payload's encoder fails, sign_typed_data returns the
\* Eip712Error with the encoder's message and no Signature, and sign_digest is
\* not called; when it succeeds, the encoded digest itself is signed.
C5_TypedDataEncodingFailure ==
    last.op = "sign_typed_data" =>
        IF last.arg.encoded = None
        THEN /\ last.out.tag = "Err"
             /\ last.out.err = Some(<<"Eip712Error", last.arg.error[1]>>)
             /\ last.out.sig = None
             /\ last.out.calls = <<>>
        ELSE /\ last.out.tag = "Ok"
             /\ last.out.sig # None
             /\ Len(last.out.calls) = 1
             /\ Sha256Proxy_finalize(last.out.calls[1]) = H256("eip712", last.arg.encoded)

C5_Witness ==
    /\ last.op = "sign_typed_data"
    /\ last.arg.encoded = None
    /\ last.out.tag = "Err"

\* C6: the digest sign_message(m) hands to the capability is the hash of the
\* domain prefix, the length string and m, never the hash of m alone, so it is
\* not the digest sign_hash signs for the raw bytes of m.
C6_MessageIsPrefixed ==
    last.op = "sign_message" =>
        /\ Len(last.out.calls) = 1
        /\ Sha256Proxy_finalize(last.out.calls[1]) =
               H256("keccak256",
                    EthMessagePrefix \o DecimalString(Len(last.arg)) \o last.arg)
        /\ Sha256Proxy_finalize(last.out.calls[1]) # keccak256(last.arg)
        /\ last.out.calls # sign_hash(Self, keccak256(last.arg)).calls

C6_Witness ==
    /\ last.op = "sign_message"
    /\ last.arg # <<>>
    /\ last.out.sig # None

SigningOps ==
    {"sign_hash", "sign_message", "sign_typed_data", "sign_transaction",
     "sign_transaction_sync"}

\* every wallet alive still has the capability and address it was built with
\* and the chain id it was last given
WalletsAsGiven ==
    \A i \in Slots :
        /\ signer(wallets[i]) = built[1][1]
        /\ address(wallets[i]) = built[1][2]
        /\ chain_id(wallets[i]) = expect_chain[i]

\* C7: with a deterministic capability, a message signed again by the wallet or
\* by its clone, whatever was signed in between, gets the Signature it got the
\* first time; signing leaves capability, address and chain id as they were.
C7_SigningIsDeterministic ==
    /\ (last.op = "sign_message" /\ last.held # None
            /\ last.held[1].message = last.arg) =>
          last.out.sig = Some(last.held[1].sig)
    /\ last.op \in SigningOps => WalletsAsGiven

C7_Witness ==
    /\ last.op = "sign_message"
    /\ last.held # None
    /\ last.held[1].message = last.arg
    /\ last.slot = 2
    /\ wallets[1].chain_id # wallets[2].chain_id

\* the values of the test vector of tron_test
ExpectedTronHex ==
    <<"4", "1", "2", "A", "2", "B", "9", "F", "7", "6", "4", "1", "D", "0", "7",
      "5", "0", "C", "1", "E", "8", "2", "2", "D", "0", "E", "4", "9", "E", "F",
      "7", "6", "5", "C", "8", "1", "0", "6", "5", "2", "4", "B">>

ExpectedTronB58 ==
    <<"T", "D", "p", "B", "e", "6", "4", "D", "q", "i", "r", "k", "K", "W", "j",
      "6", "H", "W", "u", "R", "1", "p", "W", "g", "m", "n", "h", "w", "2", "w",
      "D", "a", "c", "E">>

\* the index (from 0) of a character in an alphabet
IndexIn(alphabet, c) == (CHOOSE i \in 1 .. Len(alphabet) : alphabet[i] = c) - 1

\* the bytes a hex string spells
HexDecode(str) ==
    [i \in 1 .. Len(str) \div 2 |->
        16 * IndexIn(HexDigits, str[2 * i - 1]) + IndexIn(HexDigits, str[2 * i])]

\* num * 58 + d on a little-endian number of fixed length: the loop's state is
\* the next byte i, the bytes out so far and the carry
RECURSIVE MulAdd58(_, _)
MulAdd58(st, num) ==
    IF st.i > Len(num) THEN st.out
    ELSE LET cur == num[st.i] * 58 + st.carry
         IN  MulAdd58([i |-> st.i + 1, out |-> Append(st.out, cur % 256),
                       carry |-> cur \div 256], num)

\* the little-endian number the base58 digits from character i on add up to
RECURSIVE Base58Value(_, _)
Base58Value(st, str) ==
    IF st.i > Len(str) THEN st.num
    ELSE Base58Value(
             [i |-> st.i + 1,
              num |-> MulAdd58([i |-> 1, out |-> <<>>,
                                carry |-> IndexIn(Base58Alphabet, str[st.i])],
                               st.num)],
             str)

\* the bytes a base58 string without leading "1" spells, big-endian
Base58Decode(str) ==
    LET le == Base58Value([i |-> 1, num |-> [k \in 1 .. Len(str) |-> 0]], str)
        be == [k \in 1 .. Len(le) |-> le[Len(le) + 1 - k]]
    IN  SubSeq(be, LeadingZeros(be) + 1, Len(be))

\* the first 4 bytes of SHA-256(SHA-256(0x41 || address)), for every address
TronChecksumOf == [a \in Addresses |-> SubSeq(Sha256(Sha256(<<65>> \o a)), 1, 4)]

\* C8: to_tron_hex_address is the hex encoding of 0x41 followed by the address;
\* to_tron_b58_address is the base58 encoding of those 21 bytes followed by the
\* first 4 bytes of their double SHA-256; for the key of tron_test they are
\* 412A2B9F7641D0750C1E822D0E49EF765C8106524B (in upper case) and
\* TDpBe64DqirkKWj6HWuR1pWgmnhw2wDacE.
C8_TronAddresses ==
    /\ last.op = "to_tron_hex_address" =>
          /\ Len(last.val[1]) = 42
          /\ HexDecode(last.val[1]) = <<65>> \o Self.address
          /\ Self.address = TestVectorAddress =>
                 to_uppercase(last.val[1]) = ExpectedTronHex
    /\ last.op = "to_tron_b58_address" =>
          LET bytes == Base58Decode(last.val[1])
          IN  /\ Len(bytes) = 25
              /\ SubSeq(bytes, 1, 21) = <<65>> \o Self.address
              /\ SubSeq(bytes, 22, 25) = TronChecksumOf[Self.address]
              /\ Self.address = TestVectorAddress => last.val[1] = ExpectedTronB58

C8_Witness ==
    /\ last.op = "to_tron_b58_address"
    /\ Self.address = TestVectorAddress
    /\ last.val = Some(ExpectedTronB58)

\* C9: after any with_chain_id and signing calls on a wallet built by
\* new_with_signer, address() is the address it was built with, the capability
\* is the one it was built with, chain_id() is the argument of the latest
\* with_chain_id (the construction value if none), and a with_chain_id call
\* leaves the Signatures returned before it as they were.
C9_WithChainIdFrame ==
    built # None =>
        /\ WalletsAsGiven
        /\ last.op = "address" => last.val = Some(built[1][2])
        /\ last.op = "signer" => last.val = Some(built[1][1])
        /\ last.op = "chain_id" => last.val = Some(expect_chain[last.slot])
        /\ last.op = "with_chain_id" =>
              /\ chain_id(Self) = last.arg
              /\ kept = last.held

C9_Witness ==
    /\ last.op = "with_chain_id"
    /\ kept # None
    /\ Len(wallets) = 2
    /\ wallets[1].chain_id # wallets[2].chain_id

\* C10: for every u64 chain id and recovery id in {0,1}, to_eip155_v computes
\* recovery_id + 35 + chain_id*2 within the u64 range, without overflow or
\* wrap, so that chain id and recovery id can be recovered from v.
C10_NoOverflowOnAnyChainId ==
    last.op = "to_eip155_v" =>
        /\ ~IsPanic(last.val[1])
        /\ last.val[1] = last.arg[1] + 35 + last.arg[2] * 2
        /\ (last.val[1] - 35) \div 2 = last.arg[2]

\* C10, the part that holds: `sig.v as u8 - 27` never underflows, because
\* sign_hash returns v = recovery_id + 27.
C10_U8SubNeverUnderflows ==
    IsTxCall => AsU8(Raw.recovery_id + 27) >= 27

=============================================================================
